---- MODULE Spec2Model ----
(***************************************************************************)
(* Translation cache and batch coordination of worldmonitor               *)
(* (src/src/services/groq-translator.ts).                                  *)
(*                                                                         *)
(* Text is a sequence of UTF-16 code units (integers), so that btoa,       *)
(* trim, split and the regular expressions of the source are computed on   *)
(* characters.  The value undefined is the one-element sequence <<-1>>,    *)
(* which is no text.                                                       *)
(***************************************************************************)
EXTENDS Integers, Sequences, FiniteSets, TLC

\* ------------------------------------------------------------------ bounds
NumCallers == 2        \* concurrent callers of translateNews
MaxCalls == 3          \* translateNews invocations in one behaviour
MaxTicks == 2          \* clock advances in one behaviour
MaxItems == 3          \* length of the item list given to translateBatch
MaxBatchCalls == 2     \* translateBatch / translateClusters invocations
MaxOps == 2            \* direct getCachedTranslation / cacheTranslation calls
MaxLife == 3           \* persists, page reloads and loads in one behaviour

\* --------------------------------------------------------------- constants
CACHE_TTL == 24 * 60 * 60 * 1000

Undefined == <<-1>>

\* JavaScript truthiness of an optional string: undefined and "" are falsy.
Truthy(s) == s # Undefined /\ s # <<>>

\* --------------------------------------------------------- string helpers
\* White space of String.prototype.trim and of \s.
IsWS(c) ==
    c \in {9, 10, 11, 12, 13, 32, 160, 5760, 8232, 8233, 8239, 8287, 12288, 65279}
    \/ (c >= 8192 /\ c <= 8202)

RECURSIVE TrimStart(_)
TrimStart(s) ==
    IF s # <<>> /\ IsWS(Head(s)) THEN TrimStart(Tail(s)) ELSE s

RECURSIVE TrimEnd(_)
TrimEnd(s) ==
    IF s # <<>> /\ IsWS(s[Len(s)]) THEN TrimEnd(SubSeq(s, 1, Len(s) - 1)) ELSE s

Trim(s) == TrimEnd(TrimStart(s))

\* String.prototype.toLowerCase on the ASCII letters.
ToLower(s) == [i \in 1..Len(s) |-> IF s[i] >= 65 /\ s[i] <= 90 THEN s[i] + 32 ELSE s[i]]

StartsWith(s, p) == Len(s) >= Len(p) /\ SubSeq(s, 1, Len(p)) = p

\* s.replace(/^<tag>\s*/i, ''): tag is given in lower case.
StripTag(s, tag) ==
    IF StartsWith(ToLower(s), tag)
    THEN TrimStart(SubSeq(s, Len(tag) + 1, Len(s)))
    ELSE s

\* s.split(sep), sep non-empty: the parts between non-overlapping
\* occurrences of sep, scanned from the left.
RECURSIVE SplitFrom(_, _, _)
SplitFrom(s, sep, acc) ==
    IF s = <<>> THEN <<acc>>
    ELSE IF StartsWith(s, sep)
         THEN <<acc>> \o SplitFrom(SubSeq(s, Len(sep) + 1, Len(s)), sep, <<>>)
         ELSE SplitFrom(Tail(s), sep, Append(acc, Head(s)))

Split(s, sep) == SplitFrom(s, sep, <<>>)

IsDigit(c) == c >= 48 /\ c <= 57

RECURSIVE DigitsLen(_)
DigitsLen(s) == IF s # <<>> /\ IsDigit(Head(s)) THEN 1 + DigitsLen(Tail(s)) ELSE 0

\* parseInt of a string of decimal digits.
RECURSIVE ParseInt(_)
ParseInt(ds) ==
    IF ds = <<>> THEN 0
    ELSE ParseInt(SubSeq(ds, 1, Len(ds) - 1)) * 10 + (ds[Len(ds)] - 48)

\* trimmed.match(/^(\d+)\.\s*/): TRUE when the line starts with digits and a dot.
NumMatch(s) ==
    LET n == DigitsLen(s) IN n >= 1 /\ Len(s) > n /\ s[n + 1] = 46

NumMatchValue(s) == ParseInt(SubSeq(s, 1, DigitsLen(s)))

\* The decimal digits of a natural number.
RECURSIVE Digits(_)
Digits(n) == IF n < 10 THEN <<48 + n>> ELSE Digits(n \div 10) \o <<48 + (n % 10)>>

\* --------------------------------------------------------------- isChinese
isChinese(text) == \E i \in 1..Len(text) : text[i] >= 19968 /\ text[i] <= 40959

\* -------------------------------------------------------------------- btoa
\* btoa throws InvalidCharacterError on a code unit above 0xFF.
BtoaThrows(s) == \E i \in 1..Len(s) : s[i] > 255

B64Char(i) ==
    IF i < 26 THEN 65 + i
    ELSE IF i < 52 THEN 97 + (i - 26)
    ELSE IF i < 62 THEN 48 + (i - 52)
    ELSE IF i = 62 THEN 43 ELSE 47

RECURSIVE Btoa(_)
Btoa(s) ==
    IF Len(s) = 0 THEN <<>>
    ELSE IF Len(s) = 1
    THEN <<B64Char(s[1] \div 4), B64Char((s[1] % 4) * 16), 61, 61>>
    ELSE IF Len(s) = 2
    THEN <<B64Char(s[1] \div 4), B64Char((s[1] % 4) * 16 + (s[2] \div 16)),
           B64Char((s[2] % 16) * 4), 61>>
    ELSE <<B64Char(s[1] \div 4), B64Char((s[1] % 4) * 16 + (s[2] \div 16)),
           B64Char((s[2] % 16) * 4 + (s[3] \div 64)), B64Char(s[3] % 64)>>
         \o Btoa(SubSeq(s, 4, Len(s)))

\* "trans_"
KeyPrefix == <<116, 114, 97, 110, 115, 95>>

getCacheKey(newsId) == KeyPrefix \o newsId

\* translateNews' cache key: `trans_${btoa(title)}${summary ? '_' + btoa(summary) : ''}`
NewsKeyThrows(title, summary) ==
    BtoaThrows(title) \/ (Truthy(summary) /\ BtoaThrows(summary))

NewsKey(title, summary) ==
    KeyPrefix \o Btoa(title) \o (IF Truthy(summary) THEN <<95>> \o Btoa(summary) ELSE <<>>)

\* ------------------------------------------------------------------- state
VARIABLES
    cache,      \* translationCache: key -> [translatedTitle, translatedSummary, timestamp]
    now,        \* Date.now()
    ticks,      \* number of clock advances so far
    configKey,  \* VITE_GROQ_API_KEY or localStorage 'groq-api-key' is set
    pc,         \* per caller of translateNews: "idle", "awaiting", "done", "rejected"
    req,        \* per caller: the arguments of its current translateNews call
    ret,        \* per caller: the value its promise resolved to
    how,        \* per caller: the path the current call took
    seen,       \* per caller: age of the entry under its key when it called, -1 if none
    doneAt,     \* per caller: Date.now() when its current call settled
    peers,      \* per caller: callers that were awaiting the same text when it called
    ncalls,     \* translateNews invocations so far
    fetches,    \* outbound provider calls issued so far by translateNews
    got,        \* the last getCachedTranslation call: id, age of the entry, result
    put,        \* the last cacheTranslation call by a caller: id, value, time
    nops,       \* direct getCachedTranslation / cacheTranslation calls so far
    bpc,        \* the translateBatch invocation: "idle", "awaiting", "done"
    bvia,       \* who invoked it: "batch" (a direct caller) or "clusters"
    bitems,     \* its items argument
    bpend,      \* positions in bitems of pendingItems, in order
    breply,     \* the blocks of the provider reply it handled, <<>> if none
    becho,      \* the translations of a reply that echoed the prompt, <<>> if none
    bret,       \* the list its promise resolved to
    bhow,       \* the path the invocation took
    bcalls,     \* translateBatch / translateClusters invocations so far
    bfetches,   \* outbound provider calls issued so far by translateBatch
    isEnabled,  \* TranslationStore.isEnabled
    translations, \* TranslationStore.translations: id -> title
    stored,     \* localStorage['worldmonitor-translation-cache'], Undefined if null
    snapCache,  \* translationCache as it was at the last snapshot written
    snapAt,     \* Date.now() at the last snapshot written, -1 if none
    life,       \* the last of persist, reload of the page, load, and how it went
    nlife,      \* persists, reloads and loads so far
    silent,     \* the provider accepts requests and never answers them
    showOriginal, \* TranslationStore.showOriginal
    mode,       \* localStorage['worldmonitor-translation-mode'], Undefined if null
    listeners,  \* TranslationStore.listeners
    handed,     \* the listeners for which subscribe returned an unsubscribe function
    notified,   \* per listener: its invocations during the last store call that may notify
    disp        \* the last getDisplayTitle call: the cluster and the title returned

newsVars == <<pc, req, ret, how, seen, doneAt, peers, ncalls, fetches>>
opVars == <<got, put, nops>>
batchVars == <<bpc, bvia, bitems, bpend, breply, becho, bret, bhow, bcalls, bfetches>>
storeVars == <<isEnabled, translations>>
persistVars == <<stored, snapCache, snapAt, life, nlife>>
uiVars == <<showOriginal, mode, listeners, handed, notified, disp>>
vars == <<cache, now, ticks, configKey, newsVars, opVars, batchVars, storeVars,
          persistVars, silent, uiVars>>

Callers == 1..NumCallers

\* ------------------------------------------------------------------ inputs
\* "Fire" and "It's" written with U+2019, the typographic apostrophe.
NewsTitles == {<<70, 105, 114, 101>>, <<73, 116, 8217, 115>>}
\* no summary, or "OK"
NewsSummaries == {Undefined, <<79, 75>>}

\* What fetch and response.json() deliver: the fetch rejects (threw), the
\* status is not ok, or the body carries choices[0].message.content.
Reply(threw, ok, content) == [threw |-> threw, ok |-> ok, content |-> content]

NewsReplies ==
    { Reply(TRUE, FALSE, Undefined),                \* network failure
      Reply(FALSE, FALSE, Undefined),               \* non-2xx status
      Reply(FALSE, TRUE, Undefined),                \* no choices in the body
      Reply(FALSE, TRUE, <<32, 10>>),               \* white space only
      Reply(FALSE, TRUE, <<32, 28779, 32>>),        \* " 火 "
      Reply(FALSE, TRUE, <<28798>>),                \* "灾"
      \* "Title: 火\n\nSummary: 好"
      Reply(FALSE, TRUE, <<84, 105, 116, 108, 101, 58, 32, 28779, 10, 10,
                           83, 117, 109, 109, 97, 114, 121, 58, 32, 22909>>) }

Text(title, summary) == [title |-> title, summary |-> summary]
NoText == Text(Undefined, Undefined)
NoReq == [title |-> Undefined, summary |-> Undefined, apiKey |-> FALSE]

\* ------------------------------------------------------------- the cache
Entry(title, summary, ts) ==
    [translatedTitle |-> title, translatedSummary |-> summary, timestamp |-> ts]

\* Mutant: an entry aged exactly CACHE_TTL still counts as valid.
CacheValid_Inclusive(c, key, t) ==
    key \in DOMAIN c /\ t - c[key].timestamp <= CACHE_TTL

\* cached && Date.now() - cached.timestamp < CACHE_TTL
CacheValid(c, key, t) ==
    key \in DOMAIN c /\ t - c[key].timestamp < CACHE_TTL

CachePut(c, key, e) ==
    [k \in DOMAIN c \cup {key} |-> IF k = key THEN e ELSE c[k]]

\* apiKey || import.meta.env.VITE_GROQ_API_KEY || localStorage.getItem('groq-api-key')
HasKey(apiKey) == apiKey \/ configKey

\* ------------------------------------------------------------ translateNews
TitleTag == <<116, 105, 116, 108, 101, 58>>                \* "title:"
SummaryTag == <<115, 117, 109, 109, 97, 114, 121, 58>>     \* "summary:"

\* Mutant: the content is used as received.
Translated_NoTrim(reply) == reply.content

\* data.choices?.[0]?.message?.content?.trim()
Translated(reply) ==
    IF reply.content = Undefined THEN Undefined ELSE Trim(reply.content)

\* The try block fails: fetch rejects, !response.ok, or nothing translated.
ReplyFails(reply) == reply.threw \/ ~reply.ok \/ ~Truthy(Translated(reply))

\* Parse result (title + optional summary).
NewsParse(translated, summary) ==
    IF Truthy(summary)
    THEN LET parts == Split(translated, <<10, 10>>) IN
         IF Len(parts) >= 2
         THEN Text(Trim(StripTag(parts[1], TitleTag)), Trim(StripTag(parts[2], SummaryTag)))
         ELSE Text(translated, Undefined)
    ELSE Text(translated, Undefined)

\* Mutant: the result is never written to the cache.
NewsCacheAfter_NoWrite(c, title, summary, reply, t) == c

\* The cache after the reply has been handled: written on success only.
NewsCacheAfter(c, title, summary, reply, t) ==
    IF ReplyFails(reply) THEN c
    ELSE LET r == NewsParse(Translated(reply), summary) IN
         CachePut(c, NewsKey(title, summary), Entry(r.title, r.summary, t))

\* Mutant: the fallback returns the title alone.
NewsReturn_DropsSummary(title, summary, reply) ==
    IF ReplyFails(reply) THEN Text(title, Undefined)
    ELSE NewsParse(Translated(reply), summary)

\* The value returned after the reply has been handled.
NewsReturn(title, summary, reply) ==
    IF ReplyFails(reply) THEN Text(title, summary)
    ELSE NewsParse(Translated(reply), summary)

\* The cache lookup at the top of translateNews.
NewsCacheHit(c, title, summary, t) == CacheValid(c, NewsKey(title, summary), t)

NewsCached(c, title, summary) ==
    LET e == c[NewsKey(title, summary)] IN Text(e.translatedTitle, e.translatedSummary)

SameText(a, b) == a.title = b.title /\ a.summary = b.summary

\* translateNews(title, summary, apiKey) up to its first await (or its return).
NewsCall(c, title, summary, apiKey) ==
    /\ pc[c] # "awaiting"
    /\ ncalls < MaxCalls
    /\ ncalls' = ncalls + 1
    /\ req' = [req EXCEPT ![c] = [title |-> title, summary |-> summary, apiKey |-> apiKey]]
    /\ peers' = [d \in Callers |->
                    IF d = c
                    THEN {e \in Callers \ {c} : pc[e] = "awaiting" /\ SameText(req[e], req'[c])}
                    ELSE peers[d] \ {c}]
    /\ IF NewsKeyThrows(title, summary)
       THEN \* btoa throws before the try block: the promise rejects
            /\ pc' = [pc EXCEPT ![c] = "rejected"]
            /\ how' = [how EXCEPT ![c] = "threw"]
            /\ ret' = [ret EXCEPT ![c] = NoText]
            /\ seen' = [seen EXCEPT ![c] = -1]
            /\ doneAt' = [doneAt EXCEPT ![c] = now]
            /\ UNCHANGED fetches
       ELSE /\ seen' = [seen EXCEPT ![c] =
                          IF NewsKey(title, summary) \in DOMAIN cache
                          THEN now - cache[NewsKey(title, summary)].timestamp
                          ELSE -1]
            /\ IF NewsCacheHit(cache, title, summary, now)
               THEN /\ pc' = [pc EXCEPT ![c] = "done"]
                    /\ how' = [how EXCEPT ![c] = "hit"]
                    /\ ret' = [ret EXCEPT ![c] = NewsCached(cache, title, summary)]
                    /\ doneAt' = [doneAt EXCEPT ![c] = now]
                    /\ UNCHANGED fetches
               ELSE IF ~HasKey(apiKey)
               THEN /\ pc' = [pc EXCEPT ![c] = "done"]
                    /\ how' = [how EXCEPT ![c] = "nokey"]
                    /\ ret' = [ret EXCEPT ![c] = Text(title, summary)]
                    /\ doneAt' = [doneAt EXCEPT ![c] = now]
                    /\ UNCHANGED fetches
               ELSE /\ pc' = [pc EXCEPT ![c] = "awaiting"]
                    /\ how' = [how EXCEPT ![c] = "fetch"]
                    /\ ret' = [ret EXCEPT ![c] = NoText]
                    /\ fetches' = fetches + 1
                    /\ UNCHANGED doneAt
    /\ UNCHANGED <<cache, now, ticks, configKey, opVars, batchVars, storeVars,
                   persistVars, silent, uiVars>>

\* The provider call of caller c settles and translateNews runs to its return.
NewsReply(c, reply) ==
    /\ pc[c] = "awaiting"
    /\ pc' = [pc EXCEPT ![c] = "done"]
    /\ how' = [how EXCEPT ![c] = IF ReplyFails(reply) THEN "fail" ELSE "ok"]
    /\ cache' = NewsCacheAfter(cache, req[c].title, req[c].summary, reply, now)
    /\ ret' = [ret EXCEPT ![c] = NewsReturn(req[c].title, req[c].summary, reply)]
    /\ doneAt' = [doneAt EXCEPT ![c] = now]
    /\ UNCHANGED <<now, ticks, configKey, req, seen, peers, ncalls, fetches, opVars,
                   batchVars, storeVars, persistVars, silent, uiVars>>

\* ------------------------------------- getCachedTranslation, cacheTranslation
\* "x", "y"
Ids == {<<120>>, <<121>>}

getCachedTranslation(c, newsId, t) ==
    IF CacheValid(c, getCacheKey(newsId), t)
    THEN LET e == c[getCacheKey(newsId)] IN Text(e.translatedTitle, e.translatedSummary)
    ELSE NoText

\* Mutant: the summary is not stored.
cacheTranslation_DropsSummary(c, newsId, title, summary, t) ==
    CachePut(c, getCacheKey(newsId), Entry(title, Undefined, t))

cacheTranslation(c, newsId, title, summary, t) ==
    CachePut(c, getCacheKey(newsId), Entry(title, summary, t))

NoGot == [id |-> Undefined, age |-> -1, res |-> NoText]
NoPut == [id |-> Undefined, title |-> Undefined, summary |-> Undefined, at |-> -1]

\* A caller looks an id up.
GetCached(id) ==
    /\ nops < MaxOps
    /\ nops' = nops + 1
    /\ got' = [id |-> id,
               age |-> IF getCacheKey(id) \in DOMAIN cache
                       THEN now - cache[getCacheKey(id)].timestamp ELSE -1,
               res |-> getCachedTranslation(cache, id, now)]
    /\ UNCHANGED <<cache, put, now, ticks, configKey, newsVars, batchVars, storeVars,
                   persistVars, silent, uiVars>>

\* A caller stores a translation under an id: "火" with or without "好".
PutCached(id, title, summary) ==
    /\ nops < MaxOps
    /\ nops' = nops + 1
    /\ cache' = cacheTranslation(cache, id, title, summary, now)
    /\ put' = [id |-> id, title |-> title, summary |-> summary, at |-> now]
    /\ UNCHANGED <<now, ticks, configKey, newsVars, got, batchVars, storeVars,
                   persistVars, silent, uiVars>>

\* -------------------------------------------- JSON.stringify, JSON.parse
\* The text of a snapshot is a sequence of code units like any other text.
HexDigit(n) == IF n < 10 THEN 48 + n ELSE 97 + (n - 10)

Hex4(n) ==
    <<HexDigit(n \div 4096), HexDigit((n \div 256) % 16),
      HexDigit((n \div 16) % 16), HexDigit(n % 16)>>

IsHigh(c) == c >= 55296 /\ c <= 56319
IsLow(c) == c >= 56320 /\ c <= 57343

\* QuoteJSONString: the escape of the code unit at position i of s.
JsonEscapeUnit(s, i) ==
    LET c == s[i] IN
    IF c = 34 THEN <<92, 34>>
    ELSE IF c = 92 THEN <<92, 92>>
    ELSE IF c = 8 THEN <<92, 98>>
    ELSE IF c = 9 THEN <<92, 116>>
    ELSE IF c = 10 THEN <<92, 110>>
    ELSE IF c = 12 THEN <<92, 102>>
    ELSE IF c = 13 THEN <<92, 114>>
    ELSE IF c < 32 THEN <<92, 117>> \o Hex4(c)
    ELSE IF IsHigh(c) /\ ~(i < Len(s) /\ IsLow(s[i + 1])) THEN <<92, 117>> \o Hex4(c)
    ELSE IF IsLow(c) /\ ~(i > 1 /\ IsHigh(s[i - 1])) THEN <<92, 117>> \o Hex4(c)
    ELSE <<c>>

RECURSIVE JsonEscapeFrom(_, _)
JsonEscapeFrom(s, i) ==
    IF i > Len(s) THEN <<>> ELSE JsonEscapeUnit(s, i) \o JsonEscapeFrom(s, i + 1)

JsonQuote(s) == <<34>> \o JsonEscapeFrom(s, 1) \o <<34>>

\* "translatedTitle", "translatedSummary", "timestamp"
NameTitle == <<116, 114, 97, 110, 115, 108, 97, 116, 101, 100, 84, 105, 116, 108, 101>>
NameSummary ==
    <<116, 114, 97, 110, 115, 108, 97, 116, 101, 100, 83, 117, 109, 109, 97, 114, 121>>
NameTimestamp == <<116, 105, 109, 101, 115, 116, 97, 109, 112>>

\* JSON.stringify of a cache entry: the properties in the order the entry
\* was built with; a property whose value is undefined is left out.
JsonEntry(e) ==
    <<123>> \o JsonQuote(NameTitle) \o <<58>> \o JsonQuote(e.translatedTitle)
    \o (IF e.translatedSummary # Undefined
        THEN <<44>> \o JsonQuote(NameSummary) \o <<58>> \o JsonQuote(e.translatedSummary)
        ELSE <<>>)
    \o <<44>> \o JsonQuote(NameTimestamp) \o <<58>> \o Digits(e.timestamp)
    \o <<125>>

\* The keys of an object one after the other (the order of the properties
\* makes no difference to what is read back by key).
RECURSIVE KeySeq(_)
KeySeq(S) ==
    IF S = {} THEN <<>>
    ELSE LET k == CHOOSE x \in S : TRUE IN <<k>> \o KeySeq(S \ {k})

RECURSIVE JsonMembers(_, _, _)
JsonMembers(c, keys, i) ==
    IF i > Len(keys) THEN <<>>
    ELSE (IF i > 1 THEN <<44>> ELSE <<>>)
         \o JsonQuote(keys[i]) \o <<58>> \o JsonEntry(c[keys[i]])
         \o JsonMembers(c, keys, i + 1)

\* JSON.stringify(toPersist)
JsonStringify(c) == <<123>> \o JsonMembers(c, KeySeq(DOMAIN c), 1) \o <<125>>

\* JSON.parse on the grammar the snapshots use: objects, strings, integers
\* and null, without white space.  A parse yields [ok, val, pos]: whether
\* a value was read, the value, and the position after it.
JStr(v) == [t |-> "str", v |-> v]
JNum(v) == [t |-> "num", v |-> v]
JNull == [t |-> "null"]
JUndef == [t |-> "undefined"]
JObj(keys, vals) == [t |-> "obj", keys |-> keys, vals |-> vals]
JFail == [ok |-> FALSE, val |-> JNull, pos |-> 0]
JOk(val, pos) == [ok |-> TRUE, val |-> val, pos |-> pos]

IsHexDigit(c) == IsDigit(c) \/ (c >= 97 /\ c <= 102) \/ (c >= 65 /\ c <= 70)
HexVal(c) == IF IsDigit(c) THEN c - 48 ELSE IF c >= 97 THEN c - 87 ELSE c - 55

\* The characters of a string literal from position i up to its closing quote.
RECURSIVE JsonChars(_, _, _)
JsonChars(s, i, acc) ==
    IF i > Len(s) THEN JFail
    ELSE IF s[i] = 34 THEN JOk(JStr(acc), i + 1)
    ELSE IF s[i] < 32 THEN JFail
    ELSE IF s[i] # 92 THEN JsonChars(s, i + 1, Append(acc, s[i]))
    ELSE IF i + 1 > Len(s) THEN JFail
    ELSE LET e == s[i + 1] IN
         IF e \in {34, 92, 47} THEN JsonChars(s, i + 2, Append(acc, e))
         ELSE IF e = 98 THEN JsonChars(s, i + 2, Append(acc, 8))
         ELSE IF e = 102 THEN JsonChars(s, i + 2, Append(acc, 12))
         ELSE IF e = 110 THEN JsonChars(s, i + 2, Append(acc, 10))
         ELSE IF e = 114 THEN JsonChars(s, i + 2, Append(acc, 13))
         ELSE IF e = 116 THEN JsonChars(s, i + 2, Append(acc, 9))
         ELSE IF e = 117 /\ i + 5 <= Len(s) /\ \A d \in 2..5 : IsHexDigit(s[i + d])
         THEN JsonChars(s, i + 6,
                        Append(acc, HexVal(s[i + 2]) * 4096 + HexVal(s[i + 3]) * 256
                                    + HexVal(s[i + 4]) * 16 + HexVal(s[i + 5])))
         ELSE JFail

RECURSIVE JsonDigitsLen(_, _)
JsonDigitsLen(s, i) ==
    IF i <= Len(s) /\ IsDigit(s[i]) THEN 1 + JsonDigitsLen(s, i + 1) ELSE 0

JsonNumber(s, i) ==
    LET neg == s[i] = 45
        from == IF neg THEN i + 1 ELSE i
        n == JsonDigitsLen(s, from) IN
    IF n = 0 THEN JFail
    ELSE JOk(JNum((IF neg THEN -1 ELSE 1) * ParseInt(SubSeq(s, from, from + n - 1))),
             from + n)

RECURSIVE JsonValue(_, _)
RECURSIVE JsonObjectFrom(_, _, _, _)

\* The members of an object from position i, after those in keys and vals.
JsonObjectFrom(s, i, keys, vals) ==
    IF i > Len(s) \/ s[i] # 34 THEN JFail
    ELSE LET k == JsonChars(s, i + 1, <<>>) IN
         IF ~k.ok \/ k.pos > Len(s) \/ s[k.pos] # 58 THEN JFail
         ELSE LET v == JsonValue(s, k.pos + 1) IN
              IF ~v.ok \/ v.pos > Len(s) THEN JFail
              ELSE IF s[v.pos] = 44
              THEN JsonObjectFrom(s, v.pos + 1, Append(keys, k.val.v), Append(vals, v.val))
              ELSE IF s[v.pos] = 125
              THEN JOk(JObj(Append(keys, k.val.v), Append(vals, v.val)), v.pos + 1)
              ELSE JFail

JsonValue(s, i) ==
    IF i > Len(s) THEN JFail
    ELSE IF s[i] = 34 THEN JsonChars(s, i + 1, <<>>)
    ELSE IF s[i] = 123
    THEN IF i + 1 <= Len(s) /\ s[i + 1] = 125 THEN JOk(JObj(<<>>, <<>>), i + 2)
         ELSE JsonObjectFrom(s, i + 1, <<>>, <<>>)
    ELSE IF s[i] = 45 \/ IsDigit(s[i]) THEN JsonNumber(s, i)
    ELSE IF i + 3 <= Len(s) /\ SubSeq(s, i, i + 3) = <<110, 117, 108, 108>>
    THEN JOk(JNull, i + 4)
    ELSE JFail

\* JSON.parse(stored): ok is FALSE when it throws SyntaxError.
JsonParse(s) ==
    LET r == JsonValue(s, 1) IN
    IF r.ok /\ r.pos = Len(s) + 1 THEN r ELSE JFail

\* obj[name]: the value of the last member of that name, undefined if none.
JsonProp(obj, name) ==
    LET hits == {i \in 1..Len(obj.keys) : obj.keys[i] = name} IN
    IF hits = {} THEN JUndef
    ELSE obj.vals[CHOOSE i \in hits : \A h \in hits : h <= i]

\* ------------------------------ persistTranslationCache, loadTranslationCache
\* Mutant: the comparison of the filter is the wrong way round.
Fresh_Stale(c, t) == [k \in {x \in DOMAIN c : t - c[x].timestamp >= CACHE_TTL} |-> c[k]]

\* toPersist: only the entries still within the TTL.
Fresh(c, t) == [k \in {x \in DOMAIN c : t - c[x].timestamp < CACHE_TTL} |-> c[k]]

\* What persistTranslationCache leaves in storage: the snapshot, or what was
\* there when setItem throws (quota exceeded, storage not available).
PersistStored(c, old, t, throws) ==
    IF throws THEN old ELSE JsonStringify(Fresh(c, t))

\* A string property read off a parsed entry.
JsonText(v) == IF v.t = "str" THEN v.v ELSE Undefined

\* Date.now() - val.timestamp < CACHE_TTL: null counts as 0, and undefined
\* gives NaN, which compares false.
LoadValid(val, t) ==
    LET ts == JsonProp(val, NameTimestamp) IN
    \/ ts.t = "num" /\ t - ts.v < CACHE_TTL
    \/ ts.t = "null" /\ t < CACHE_TTL

LoadedEntry(val) ==
    LET ts == JsonProp(val, NameTimestamp) IN
    Entry(JsonText(JsonProp(val, NameTitle)), JsonText(JsonProp(val, NameSummary)),
          IF ts.t = "num" THEN ts.v ELSE 0)

\* The loop over Object.entries(parsed) from member i on: a member that is
\* null makes val.timestamp throw, which ends the loop; a string or a number
\* has no timestamp and is passed over.
RECURSIVE LoadEntries(_, _, _, _)
LoadEntries(c, obj, i, t) ==
    IF i > Len(obj.keys) THEN c
    ELSE LET val == obj.vals[i] IN
         IF \E j \in (i + 1)..Len(obj.keys) : obj.keys[j] = obj.keys[i]
         THEN LoadEntries(c, obj, i + 1, t)
         ELSE IF val.t = "null" THEN c
         ELSE IF val.t = "obj" /\ LoadValid(val, t)
         THEN LoadEntries(CachePut(c, obj.keys[i], LoadedEntry(val)), obj, i + 1, t)
         ELSE LoadEntries(c, obj, i + 1, t)

\* Mutant: a load that fails starts from an empty cache.
LoadCache_ClearsOnFailure(c, st, t, throws) ==
    IF throws THEN <<>>
    ELSE IF ~Truthy(st) THEN c
    ELSE LET r == JsonParse(st) IN
         IF ~r.ok \/ r.val.t # "obj" THEN <<>>
         ELSE LoadEntries(c, r.val, 1, t)

\* translationCache after loadTranslationCache: getItem may throw, there may
\* be nothing stored, JSON.parse may throw, and Object.entries(null) throws.
LoadCache(c, st, t, throws) ==
    IF throws \/ ~Truthy(st) THEN c
    ELSE LET r == JsonParse(st) IN
         IF ~r.ok \/ r.val.t # "obj" THEN c
         ELSE LoadEntries(c, r.val, 1, t)

\* How a load went, for the log.
LoadOutcome(st, throws) ==
    IF throws THEN "load-failed"
    ELSE IF ~Truthy(st) THEN "load-none"
    ELSE LET r == JsonParse(st) IN
         IF ~r.ok \/ r.val.t = "null" THEN "load-failed" ELSE "loaded"

\* ------------------------------------------- TranslationStore: mode, listeners
\* The functions that callers give to subscribe.
Listeners == {1, 2}

\* JSON.stringify({ isEnabled, showOriginal }):
\* '{"isEnabled":true,"showOriginal":false}'
BoolText(b) == IF b THEN <<116, 114, 117, 101>> ELSE <<102, 97, 108, 115, 101>>

ModeJson(e, s) ==
    <<123, 34, 105, 115, 69, 110, 97, 98, 108, 101, 100, 34, 58>> \o BoolText(e) \o
    <<44, 34, 115, 104, 111, 119, 79, 114, 105, 103, 105, 110, 97, 108, 34, 58>> \o BoolText(s) \o <<125>>

Mode(e, s) == [isEnabled |-> e, showOriginal |-> s]

\* loadFromStorage(): the two fields as stored, false where storage holds
\* nothing or text that JSON.parse rejects.
LoadedMode(text) ==
    IF \E e, s \in BOOLEAN : text = ModeJson(e, s)
    THEN CHOOSE m \in [isEnabled : BOOLEAN, showOriginal : BOOLEAN] :
             text = ModeJson(m.isEnabled, m.showOriginal)
    ELSE Mode(FALSE, FALSE)

\* saveToStorage(): a setItem that throws is caught and storage keeps its text.
SavedMode(old, e, s, throws) == IF throws THEN old ELSE ModeJson(e, s)

NoneNotified == [l \in Listeners |-> 0]

\* Mutant: every function ever seen is invoked, subscribed or not.
Notified_All(ls) == [l \in Listeners |-> 1]

\* notifyListeners(): this.listeners.forEach(listener => listener())
Notified(ls) == [l \in Listeners |-> IF l \in ls THEN 1 ELSE 0]

NoDisp == [id |-> Undefined, title |-> Undefined, res |-> Undefined]

\* persistTranslationCache()
Persist(throws) ==
    /\ nlife < MaxLife
    /\ nlife' = nlife + 1
    /\ stored' = PersistStored(cache, stored, now, throws)
    /\ life' = IF throws THEN "persist-failed" ELSE "persisted"
    /\ snapCache' = IF throws THEN snapCache ELSE cache
    /\ snapAt' = IF throws THEN snapAt ELSE now
    /\ UNCHANGED <<cache, now, ticks, configKey, newsVars, opVars, batchVars, storeVars,
                   silent, uiVars>>

\* The page is loaded again: the module state is new, storage stays.
Reload ==
    /\ nlife < MaxLife
    /\ nlife' = nlife + 1
    /\ life' = "reloaded"
    /\ cache' = <<>>
    /\ translations' = <<>>
    /\ isEnabled' = LoadedMode(mode).isEnabled
    /\ showOriginal' = LoadedMode(mode).showOriginal
    /\ listeners' = {} /\ handed' = {}
    /\ notified' = NoneNotified /\ disp' = NoDisp
    /\ pc' = [c \in Callers |-> "idle"]
    /\ req' = [c \in Callers |-> NoReq]
    /\ ret' = [c \in Callers |-> NoText]
    /\ how' = [c \in Callers |-> "none"]
    /\ seen' = [c \in Callers |-> -1]
    /\ doneAt' = [c \in Callers |-> 0]
    /\ peers' = [c \in Callers |-> {}]
    /\ got' = NoGot
    /\ put' = NoPut
    /\ bpc' = "idle" /\ bvia' = "batch" /\ bitems' = <<>> /\ bpend' = <<>>
    /\ breply' = <<>> /\ becho' = <<>> /\ bret' = <<>> /\ bhow' = "none"
    /\ UNCHANGED <<now, ticks, configKey, ncalls, fetches, nops, bcalls, bfetches,
                   stored, snapCache, snapAt, silent,
                   mode>>

\* loadTranslationCache()
Load(throws) ==
    /\ nlife < MaxLife
    /\ nlife' = nlife + 1
    /\ cache' = LoadCache(cache, stored, now, throws)
    /\ life' = LoadOutcome(stored, throws)
    /\ UNCHANGED <<now, ticks, configKey, newsVars, opVars, batchVars, storeVars,
                   stored, snapCache, snapAt, silent, uiVars>>

\* ------------------------------------------------------------------- clock
TickSteps == {1, CACHE_TTL - 1}

Tick(d) ==
    /\ ticks < MaxTicks
    /\ ticks' = ticks + 1
    /\ now' = now + d
    /\ UNCHANGED <<cache, configKey, newsVars, opVars, batchVars, storeVars,
                   persistVars, silent, uiVars>>

\* ----------------------------------------------------------- translateBatch
Item(id, title, summary) == [id |-> id, title |-> title, summary |-> summary]

\* items.map(item => ({ id: item.id, title: item.title, summary: item.summary }))
Originals(items) ==
    [j \in 1..Len(items) |-> Item(items[j].id, items[j].title, items[j].summary)]

\* Mutant: the filter leaves the cache out.
IsPending_IgnoresCache(c, item, t) == ~isChinese(item.title)

\* The filter of pendingItems: not Chinese and not cached under the id.
IsPending(c, item, t) ==
    ~isChinese(item.title) /\ getCachedTranslation(c, item.id, t) = NoText

RECURSIVE PendingFrom(_, _, _, _)
PendingFrom(c, items, t, j) ==
    IF j > Len(items) THEN <<>>
    ELSE (IF IsPending(c, items[j], t) THEN <<j>> ELSE <<>>)
         \o PendingFrom(c, items, t, j + 1)

PendingIdx(c, items, t) == PendingFrom(c, items, t, 1)

PendingItems(items, idx) == [k \in 1..Len(idx) |-> items[idx[k]]]

\* Mutant: the ordinal is used as a zero-based index.
PendingId_NoShift(pending, index) ==
    IF index + 2 \in 1..Len(pending) THEN pending[index + 2].id ELSE <<>>

\* pendingItems[index]?.id || ''
PendingId(pending, index) ==
    IF index + 1 \in 1..Len(pending) THEN pending[index + 1].id ELSE <<>>

\* if (currentItem && currentId) { results.push(...); cacheTranslation(...) }
Flush(st) ==
    IF st.cur # NoText /\ st.curId # <<>>
    THEN Append(st.results, Item(st.curId, st.cur.title, st.cur.summary))
    ELSE st.results

\* One turn of the loop over the lines of the reply.
ParseLine(st, line, pending) ==
    LET trimmed == Trim(line) IN
    IF trimmed = <<>> THEN st
    ELSE IF NumMatch(trimmed)
    THEN [results |-> Flush(st),
          cur |-> NoText,
          curId |-> PendingId(pending, NumMatchValue(trimmed) - 1)]
    ELSE IF StartsWith(ToLower(trimmed), TitleTag)
    THEN [st EXCEPT !.cur = Text(Trim(StripTag(trimmed, TitleTag)), Undefined)]
    ELSE IF StartsWith(ToLower(trimmed), SummaryTag)
    THEN IF st.cur # NoText
         THEN [st EXCEPT !.cur.summary = Trim(StripTag(trimmed, SummaryTag))]
         ELSE st
    ELSE st

RECURSIVE ParseLines(_, _, _)
ParseLines(st, lines, pending) ==
    IF lines = <<>> THEN st
    ELSE ParseLines(ParseLine(st, Head(lines), pending), Tail(lines), pending)

\* The results array after the loop and the save of the last item.
BatchParse(translated, pending) ==
    Flush(ParseLines([results |-> <<>>, cur |-> NoText, curId |-> <<>>],
                     Split(translated, <<10>>), pending))

\* Every push to results is followed by cacheTranslation of the same record.
RECURSIVE BatchCacheWrites(_, _, _)
BatchCacheWrites(c, results, t) ==
    IF results = <<>> THEN c
    ELSE BatchCacheWrites(
             cacheTranslation(c, Head(results).id, Head(results).title,
                              Head(results).summary, t),
             Tail(results), t)

\* results.find(r => r.id === item.id)
FindResult(results, id) ==
    LET hits == {i \in 1..Len(results) : results[i].id = id} IN
    IF hits = {} THEN 0 ELSE CHOOSE i \in hits : \A h \in hits : i <= h

\* Merge with original items (preserve order).
MergeItem(item, results, c, t) ==
    LET i == FindResult(results, item.id)
        cached == getCachedTranslation(c, item.id, t) IN
    IF i # 0 THEN results[i]
    ELSE IF cached # NoText THEN Item(item.id, cached.title, cached.summary)
    ELSE Item(item.id, item.title, item.summary)

\* Mutant: the parsed results are returned instead of the merged list.
BatchMerge_ResultsOnly(items, results, c, t) == results

BatchMerge(items, results, c, t) ==
    [j \in 1..Len(items) |-> MergeItem(items[j], results, c, t)]

\* The cache once the reply has been handled.
BatchCacheAfter(c, items, idx, reply, t) ==
    IF ReplyFails(reply) THEN c
    ELSE BatchCacheWrites(
             c, BatchParse(Translated(reply), PendingItems(items, idx)), t)

\* The list translateBatch resolves to once the reply has been handled.
BatchReturn(c, items, idx, reply, t) ==
    IF ReplyFails(reply) THEN Originals(items)
    ELSE BatchMerge(items,
                    BatchParse(Translated(reply), PendingItems(items, idx)),
                    BatchCacheAfter(c, items, idx, reply, t), t)

\* ---------------------------------------------------------- TranslationStore
\* hasTranslation(newsId)
hasTranslation(c, newsId, t) ==
    newsId \in DOMAIN translations \/ getCachedTranslation(c, newsId, t) # NoText

\* results.forEach(result => this.setTranslation(result.id, { title: result.title }))
RECURSIVE SetTranslationsCache(_, _, _)
SetTranslationsCache(c, results, t) ==
    IF results = <<>> THEN c
    ELSE SetTranslationsCache(
             cacheTranslation(c, Head(results).id, Head(results).title, Undefined, t),
             Tail(results), t)

RECURSIVE SetTranslationsMap(_, _)
SetTranslationsMap(m, results) ==
    IF results = <<>> THEN m
    ELSE SetTranslationsMap(
             [id \in DOMAIN m \cup {Head(results).id} |->
                 IF id = Head(results).id THEN Head(results).title ELSE m[id]],
             Tail(results))

\* The clusters translateClusters sends on: not Chinese, no translation yet.
RECURSIVE PendingClusters(_, _, _)
PendingClusters(c, clusters, t) ==
    IF clusters = <<>> THEN <<>>
    ELSE (IF ~isChinese(Head(clusters).title) /\ ~hasTranslation(c, Head(clusters).id, t)
          THEN <<Item(Head(clusters).id, Head(clusters).title, Undefined)>>
          ELSE <<>>)
         \o PendingClusters(c, Tail(clusters), t)

\* ------------------------------------------------------------ batch inputs
\* ids "x", "y", "z", "w"; titles "Fire", "Rain", "Snow", and "火灾"
ItemA == Item(<<120>>, <<70, 105, 114, 101>>, Undefined)
ItemB == Item(<<121>>, <<82, 97, 105, 110>>, <<79, 75>>)
ItemC == Item(<<122>>, <<83, 110, 111, 119>>, Undefined)
ItemD == Item(<<120>>, <<82, 97, 105, 110>>, Undefined)     \* the id of ItemA
ItemE == Item(<<119>>, <<28779, 28798>>, Undefined)         \* already Chinese

Palette == {ItemA, ItemB, ItemC, ItemD, ItemE}

\* The order in which the palette's items appear in a list.
Rank(item) ==
    IF item = ItemE THEN 1 ELSE IF item = ItemA THEN 2 ELSE IF item = ItemB THEN 3
    ELSE IF item = ItemC THEN 4 ELSE 5

\* The lists of at most MaxItems items of the palette, in that order.
ItemLists ==
    UNION {{l \in [1..n -> Palette] : \A i, j \in 1..n : i < j => Rank(l[i]) < Rank(l[j])} :
              n \in 0..MaxItems}

\* A block of the provider's reply: a line "<ord>." (none when ord < 0), a
\* line "Title: <title>" and a line "Summary: <summary>", each if defined.
Blk(ord, title, summary) == [ord |-> ord, title |-> title, summary |-> summary]

RenderBlk(b) ==
    (IF b.ord >= 0 THEN Digits(b.ord) \o <<46, 10>> ELSE <<>>)
    \o (IF b.title # Undefined
        THEN <<84, 105, 116, 108, 101, 58, 32>> \o b.title \o <<10>> ELSE <<>>)
    \o (IF b.summary # Undefined
        THEN <<83, 117, 109, 109, 97, 114, 121, 58, 32>> \o b.summary \o <<10>>
        ELSE <<>>)

RECURSIVE Render(_)
Render(blocks) ==
    IF blocks = <<>> THEN <<>> ELSE RenderBlk(Head(blocks)) \o Render(Tail(blocks))

\* Translations: "甲", "乙", "丙"; summary "好".
BatchBlocks ==
    { <<Blk(1, <<30002>>, Undefined), Blk(2, <<20057>>, <<22909>>),
        Blk(3, <<19993>>, Undefined)>>,
      <<Blk(1, <<30002>>, Undefined), Blk(3, <<19993>>, Undefined)>>,
      <<Blk(2, <<20057>>, Undefined), Blk(1, <<30002>>, <<22909>>)>>,
      <<Blk(1, <<30002>>, Undefined), Blk(1, <<20057>>, Undefined)>>,
      <<Blk(0, <<30002>>, Undefined), Blk(2, <<20057>>, Undefined),
        Blk(9, <<19993>>, Undefined)>>,
      <<Blk(1, Undefined, <<22909>>), Blk(2, <<20057>>, Undefined)>>,
      <<Blk(-1, <<30002>>, Undefined)>> }

\* promptParts: `${num}. Title: ${item.title}\nSummary: ${item.summary}`, the
\* summary line only for an item that has a summary.
PromptPart(num, item) ==
    Digits(num) \o <<46, 32, 84, 105, 116, 108, 101, 58, 32>> \o item.title
    \o (IF Truthy(item.summary)
        THEN <<10, 83, 117, 109, 109, 97, 114, 121, 58, 32>> \o item.summary
        ELSE <<>>)

\* promptParts.join('\n\n')
RECURSIVE PromptJoin(_, _)
PromptJoin(its, num) ==
    IF num > Len(its) THEN <<>>
    ELSE PromptPart(num, its[num])
         \o (IF num < Len(its) THEN <<10, 10>> ELSE <<>>)
         \o PromptJoin(its, num + 1)

PromptBody(its) == PromptJoin(its, 1)

\* The translations a provider that follows the prompt gives the pending
\* items: a title of its own for each ordinal, and "好" for each summary.
EchoOf(pending) ==
    [k \in 1..Len(pending) |->
        Text(<<19968 + k>>, IF Truthy(pending[k].summary) THEN <<22909>> ELSE Undefined)]

BatchFailures ==
    { Reply(TRUE, FALSE, Undefined),
      Reply(FALSE, FALSE, Undefined),
      Reply(FALSE, TRUE, <<10>>) }

ReplyOf(blocks) == Reply(FALSE, TRUE, Render(blocks))

\* ------------------------------------------------------------ batch actions
\* translateBatch(items, apiKey) up to its await (or its return), for the
\* invoker via.
BatchDispatch(items, apiKey, via) ==
    LET idx == PendingIdx(cache, items, now) IN
    /\ bitems' = items
    /\ bvia' = via
    /\ bpend' = idx
    /\ breply' = <<>>
    /\ becho' = <<>>
    /\ IF idx = <<>>
       THEN /\ bpc' = "done" /\ bhow' = "nopending"
            /\ bret' = Originals(items)
            /\ UNCHANGED bfetches
       ELSE IF ~HasKey(apiKey)
       THEN /\ bpc' = "done" /\ bhow' = "nokey"
            /\ bret' = Originals(items)
            /\ UNCHANGED bfetches
       ELSE /\ bpc' = "awaiting" /\ bhow' = "fetch"
            /\ bret' = <<>>
            /\ bfetches' = bfetches + 1

\* A direct caller invokes translateBatch.
BatchCall(items, apiKey) ==
    /\ bpc # "awaiting"
    /\ bcalls < MaxBatchCalls
    /\ bcalls' = bcalls + 1
    /\ BatchDispatch(items, apiKey, "batch")
    /\ UNCHANGED <<cache, now, ticks, configKey, newsVars, opVars, storeVars,
                   persistVars, silent, uiVars>>

\* translationStore.translateClusters(clusters) up to its await (or its
\* return); translateBatch is not invoked when the mode is off or no cluster
\* is pending.
ClustersCall(clusters) ==
    LET items == PendingClusters(cache, clusters, now) IN
    /\ bpc # "awaiting"
    /\ bcalls < MaxBatchCalls
    /\ bcalls' = bcalls + 1
    /\ IF ~isEnabled \/ items = <<>>
       THEN /\ bpc' = "done"
            /\ bhow' = IF ~isEnabled THEN "disabled" ELSE "noclusters"
            /\ bvia' = "clusters"
            /\ bitems' = <<>>
            /\ bpend' = <<>>
            /\ breply' = <<>>
            /\ becho' = <<>>
            /\ bret' = <<>>
            /\ notified' = NoneNotified
            /\ UNCHANGED <<bfetches, cache, translations>>
       ELSE /\ BatchDispatch(items, FALSE, "clusters")
            /\ IF bpc' = "done"
               THEN /\ cache' = SetTranslationsCache(cache, bret', now)
                    /\ translations' = SetTranslationsMap(translations, bret')
                    /\ notified' = Notified(listeners)
               ELSE /\ notified' = NoneNotified
                    /\ UNCHANGED <<cache, translations>>
    /\ UNCHANGED <<now, ticks, configKey, newsVars, opVars, isEnabled, persistVars, silent,
                   showOriginal, mode, listeners, handed, disp>>

\* The provider call of the batch settles; translateBatch runs to its
\* return and, under translateClusters, the results are stored.
BatchSettle(reply) ==
    /\ bpc = "awaiting"
    /\ bpc' = "done"
    /\ bhow' = IF ReplyFails(reply) THEN "fail" ELSE "ok"
    /\ bret' = BatchReturn(cache, bitems, bpend, reply, now)
    /\ IF bvia = "clusters"
       THEN /\ cache' = SetTranslationsCache(
                            BatchCacheAfter(cache, bitems, bpend, reply, now), bret', now)
            /\ translations' = SetTranslationsMap(translations, bret')
            /\ notified' = Notified(listeners)
       ELSE /\ cache' = BatchCacheAfter(cache, bitems, bpend, reply, now)
            /\ UNCHANGED <<translations, notified>>
    /\ UNCHANGED <<now, ticks, configKey, newsVars, opVars, isEnabled,
                   bvia, bitems, bpend, bcalls, bfetches, persistVars, silent,
                   showOriginal, mode, listeners, handed, disp>>

\* The provider answers with the given blocks, or fails.
BatchReply(reply, blocks) ==
    /\ BatchSettle(reply)
    /\ breply' = blocks
    /\ becho' = <<>>

\* The provider answers in the shape of the prompt it was sent.
BatchEcho ==
    /\ BatchSettle(Reply(FALSE, TRUE, PromptBody(EchoOf(PendingItems(bitems, bpend)))))
    /\ breply' = <<>>
    /\ becho' = EchoOf(PendingItems(bitems, bpend))

\* --------------------------------------------------- TranslationStore calls
\* getTranslation(newsId): this.translations.get(newsId) ||
\* getCachedTranslation(newsId), as the title it carries, Undefined for null.
getTranslation(c, newsId, t) ==
    IF newsId \in DOMAIN translations THEN translations[newsId]
    ELSE IF getCachedTranslation(c, newsId, t) # NoText
    THEN getCachedTranslation(c, newsId, t).title
    ELSE Undefined

getDisplayTitle(cluster) ==
    IF ~isEnabled \/ showOriginal THEN cluster.title
    ELSE IF getTranslation(cache, cluster.id, now) # Undefined
    THEN getTranslation(cache, cluster.id, now)
    ELSE cluster.title

\* The body the four setters share: the field is assigned, saveToStorage()
\* and notifyListeners() run.
StoreSet(e, s, throws) ==
    /\ isEnabled' = e
    /\ showOriginal' = s
    /\ mode' = SavedMode(mode, e, s, throws)
    /\ notified' = Notified(listeners)
    /\ UNCHANGED <<cache, now, ticks, configKey, newsVars, opVars, batchVars,
                   translations, persistVars, silent, listeners, handed, disp>>

SetEnabled(enabled, throws) == StoreSet(enabled, showOriginal, throws)

Toggle(throws) == StoreSet(~isEnabled, showOriginal, throws)

ToggleShowOriginal(throws) == StoreSet(isEnabled, ~showOriginal, throws)

SetShowOriginal(show, throws) == StoreSet(isEnabled, show, throws)

\* subscribe(listener)
Subscribe(l) ==
    /\ listeners' = listeners \cup {l}
    /\ handed' = handed \cup {l}
    /\ notified' = NoneNotified
    /\ UNCHANGED <<cache, now, ticks, configKey, newsVars, opVars, batchVars,
                   storeVars, persistVars, silent, showOriginal, mode, disp>>

\* A function that subscribe returned is called:
\* () => this.listeners.delete(listener)
Unsubscribe(l) ==
    /\ l \in handed
    /\ listeners' = listeners \ {l}
    /\ notified' = NoneNotified
    /\ UNCHANGED <<cache, now, ticks, configKey, newsVars, opVars, batchVars,
                   storeVars, persistVars, silent, showOriginal, mode, handed,
                   disp>>

\* getDisplayTitle(cluster)
GetDisplayTitle(cluster) ==
    /\ disp' = [id |-> cluster.id, title |-> cluster.title,
                res |-> getDisplayTitle(cluster)]
    /\ UNCHANGED <<cache, now, ticks, configKey, newsVars, opVars, batchVars,
                   storeVars, persistVars, silent, showOriginal, mode, listeners,
                   handed, notified>>

\* ----------------------------------------------------------- specifications
InitBase ==
    /\ cache = <<>>
    /\ now = 0
    /\ ticks = 0
    /\ configKey \in BOOLEAN
    /\ pc = [c \in Callers |-> "idle"]
    /\ req = [c \in Callers |-> NoReq]
    /\ ret = [c \in Callers |-> NoText]
    /\ how = [c \in Callers |-> "none"]
    /\ seen = [c \in Callers |-> -1]
    /\ doneAt = [c \in Callers |-> 0]
    /\ peers = [c \in Callers |-> {}]
    /\ ncalls = 0
    /\ fetches = 0
    /\ got = NoGot
    /\ put = NoPut
    /\ nops = 0
    /\ bpc = "idle"
    /\ bvia = "batch"
    /\ bitems = <<>>
    /\ bpend = <<>>
    /\ breply = <<>>
    /\ becho = <<>>
    /\ bret = <<>>
    /\ bhow = "none"
    /\ bcalls = 0
    /\ bfetches = 0
    /\ translations = <<>>
    /\ snapCache = <<>>
    /\ snapAt = -1
    /\ life = "fresh"
    /\ nlife = 0
    /\ listeners = {}
    /\ handed = {}
    /\ notified = NoneNotified
    /\ disp = NoDisp

\* The mode the constructor of the store loaded, and the text it loaded it
\* from.
InitMode ==
    /\ showOriginal = FALSE
    /\ mode = IF isEnabled THEN ModeJson(TRUE, FALSE) ELSE Undefined

\* The store's translation mode is off unless storage says otherwise, and
\* storage holds no snapshot.
Init == InitBase /\ isEnabled = FALSE /\ stored = Undefined /\ silent = FALSE /\ InitMode

\* Concurrent callers of translateNews.
NextNews ==
    \/ \E c \in Callers, t \in NewsTitles, s \in NewsSummaries, k \in BOOLEAN :
          NewsCall(c, t, s, k)
    \/ \E c \in Callers, r \in NewsReplies : NewsReply(c, r)

SpecNews == Init /\ [][NextNews]_vars

\* One caller making its calls one after the other, while the clock runs.
NextSeq ==
    \/ \E t \in NewsTitles, s \in NewsSummaries, k \in BOOLEAN : NewsCall(1, t, s, k)
    \/ \E r \in NewsReplies : NewsReply(1, r)
    \/ \E d \in TickSteps : Tick(d)

SpecSeq == Init /\ [][NextSeq]_vars

\* Entries of both kinds ageing: one caller translating "Fire", and the id
\* "x" stored and looked up, while the clock runs.
NextTTL ==
    \/ \E k \in BOOLEAN : NewsCall(1, <<70, 105, 114, 101>>, Undefined, k)
    \/ \E r \in {Reply(TRUE, FALSE, Undefined), Reply(FALSE, TRUE, <<28798>>)} :
          NewsReply(1, r)
    \/ GetCached(<<120>>)
    \/ PutCached(<<120>>, <<28779>>, <<22909>>)
    \/ PutCached(<<120>>, <<28798>>, Undefined)
    \/ \E d \in TickSteps : Tick(d)

SpecTTL == Init /\ [][NextTTL]_vars

\* translateBatch and translateClusters, one invocation at a time; the
\* store's translation mode is as loaded from storage.
InitBatch ==
    InitBase /\ isEnabled \in BOOLEAN /\ stored = Undefined /\ silent = FALSE /\ InitMode

NextBatch ==
    \/ \E l \in ItemLists, k \in BOOLEAN : BatchCall(l, k)
    \/ \E l \in ItemLists : ClustersCall(l)
    \/ \E b \in BatchBlocks : BatchReply(ReplyOf(b), b)
    \/ \E r \in BatchFailures : BatchReply(r, <<>>)
    \/ BatchEcho

SpecBatch == InitBatch /\ [][NextBatch]_vars

\* The two entry points side by side: translateBatch is given "Fire" under
\* the id "x", under the id "v", or both, and translateNews is given "Fire";
\* cacheTranslation stores "火" under "x".
ItemF == Item(<<118>>, <<70, 105, 114, 101>>, Undefined)

CrossLists == {<<ItemA>>, <<ItemF>>, <<ItemA, ItemF>>}

CrossBlocks ==
    { <<Blk(1, <<30002>>, Undefined)>>,
      <<Blk(1, <<30002>>, Undefined), Blk(2, <<20057>>, Undefined)>> }

NextCross ==
    \/ \E l \in CrossLists, k \in BOOLEAN : BatchCall(l, k)
    \/ \E b \in CrossBlocks : BatchReply(ReplyOf(b), b)
    \/ \E r \in BatchFailures : BatchReply(r, <<>>)
    \/ \E k \in BOOLEAN : NewsCall(1, <<70, 105, 114, 101>>, Undefined, k)
    \/ \E r \in {Reply(TRUE, FALSE, Undefined), Reply(FALSE, TRUE, <<28798>>)} :
          NewsReply(1, r)
    \/ PutCached(<<120>>, <<28779>>, Undefined)
    \/ GetCached(<<120>>)

SpecCross == Init /\ [][NextCross]_vars

\* Calls that wait for the provider.  A provider that is not silent answers
\* every request, and the continuation of the call then runs; the source
\* sets no timer and passes fetch no AbortSignal, so no other step ends a
\* call that is waiting.
InitLive ==
    InitBase /\ isEnabled = FALSE /\ stored = Undefined /\ silent \in BOOLEAN /\ InitMode

NewsAnswered ==
    \E r \in {Reply(TRUE, FALSE, Undefined), Reply(FALSE, TRUE, <<28798>>)} :
        ~silent /\ NewsReply(1, r)

BatchFailed == \E r \in BatchFailures : ~silent /\ BatchReply(r, <<>>)

BatchAnswered ==
    \/ \E b \in CrossBlocks : ~silent /\ BatchReply(ReplyOf(b), b)
    \/ BatchFailed

NextLive ==
    \/ \E s \in NewsSummaries : NewsCall(1, <<70, 105, 114, 101>>, s, TRUE)
    \/ NewsAnswered
    \/ \E l \in CrossLists : BatchCall(l, TRUE)
    \/ BatchAnswered

\* A request to a provider that is not silent does not stay unanswered.  For
\* the batch, weak fairness of the failing answers says so: any answer ends
\* the wait, and with it the obligation.
SpecLive ==
    InitLive /\ [][NextLive]_vars /\ WF_vars(NewsAnswered) /\ WF_vars(BatchFailed)

\* Items that are Chinese already, next to items that are not: "火灾" under
\* the id "w" and under the id "x", which is the id of "Fire" as well.
ItemG == Item(<<120>>, <<28779, 28798>>, Undefined)

SkipLists ==
    {<<ItemE>>, <<ItemE, ItemA>>, <<ItemG, ItemA>>, <<ItemA, ItemE, ItemB>>}

NextSkip ==
    \/ \E l \in SkipLists, k \in BOOLEAN : BatchCall(l, k)
    \/ \E l \in SkipLists : ClustersCall(l)
    \/ \E b \in CrossBlocks : BatchReply(ReplyOf(b), b)
    \/ \E r \in BatchFailures : BatchReply(r, <<>>)
    \/ BatchEcho

SpecSkip == InitBatch /\ [][NextSkip]_vars

\* What storage may hold when the page is first loaded: nothing, or text
\* that is no snapshot: "{", "null", a snapshot cut short.
StoredAtStart ==
    { Undefined, <<123>>, <<110, 117, 108, 108>>,
      SubSeq(JsonStringify(cacheTranslation(<<>>, <<120>>, <<28779>>, Undefined, 0)), 1, 40) }

InitSnap ==
    /\ InitBase /\ isEnabled = FALSE /\ silent = FALSE /\ InitMode
    /\ ~configKey
    /\ stored \in StoredAtStart

\* Snapshots: entries are written under the ids "x" and "y", the clock
\* runs, and the cache is persisted, the page loaded again and the snapshot
\* loaded.  The title stored under "y" is '"火\'.
NextSnap ==
    \/ PutCached(<<120>>, <<28779>>, <<22909>>)
    \/ PutCached(<<121>>, <<34, 28779, 92>>, Undefined)
    \/ \E d \in TickSteps : Tick(d)
    \/ \E th \in BOOLEAN : Persist(th)
    \/ Reload
    \/ \E th \in BOOLEAN : Load(th)

SpecSnap == InitSnap /\ [][NextSnap]_vars

\* Ids next to texts: a caller id may be any string, "RmlyZQ==" among them,
\* which is btoa("Fire").  "火" is stored under that id and under "x", both
\* ids are looked up, and translateNews is given "Fire".
AliasId == Btoa(<<70, 105, 114, 101>>)

NextAlias ==
    \/ \E id \in {AliasId, <<120>>} : PutCached(id, <<28779>>, Undefined)
    \/ \E id \in {AliasId, <<120>>} : GetCached(id)
    \/ \E k \in BOOLEAN : NewsCall(1, <<70, 105, 114, 101>>, Undefined, k)
    \/ \E r \in {Reply(TRUE, FALSE, Undefined), Reply(FALSE, TRUE, <<28798>>)} :
          NewsReply(1, r)

SpecAlias == Init /\ [][NextAlias]_vars

\* The store in use: the mode is set and toggled, functions subscribe and
\* unsubscribe, the cluster "Fire" (id "x") is sent to translateClusters,
\* "火" is cached under the id "y", and titles are displayed for
\* the clusters "Fire" and "Rain" (id "y").  Storage holds no mode at the
\* start, or "{", or a mode that was saved.
ModeAtStart == {Undefined, <<123>>, ModeJson(TRUE, FALSE), ModeJson(TRUE, TRUE)}

InitStore ==
    /\ InitBase /\ stored = Undefined /\ silent = FALSE
    /\ mode \in ModeAtStart
    /\ isEnabled = LoadedMode(mode).isEnabled
    /\ showOriginal = LoadedMode(mode).showOriginal

StoreSetter ==
    \/ \E e, th \in BOOLEAN : SetEnabled(e, th)
    \/ \E th \in BOOLEAN : Toggle(th)
    \/ \E th \in BOOLEAN : ToggleShowOriginal(th)
    \/ \E sh, th \in BOOLEAN : SetShowOriginal(sh, th)

NextStore ==
    \/ StoreSetter
    \/ \E l \in Listeners : Subscribe(l)
    \/ \E l \in Listeners : Unsubscribe(l)
    \/ \E cl \in {ItemA, ItemB} : GetDisplayTitle(cl)
    \/ ClustersCall(<<ItemA>>)
    \/ \E b \in {<<Blk(1, <<30002>>, Undefined)>>} : BatchReply(ReplyOf(b), b)
    \/ \E r \in BatchFailures : BatchReply(r, <<>>)
    \/ PutCached(<<121>>, <<28779>>, Undefined)

SpecStore == InitStore /\ [][NextStore]_vars

\* ==================================================================== claims
\* The callers whose provider call for the text of request r is outstanding.
Outstanding(r) == {c \in Callers : pc[c] = "awaiting" /\ SameText(req[c], r)}

\* C1: when several callers invoke translateNews concurrently with the same
\* (title, summary), at no instant are two provider calls outstanding for
\* that text (one call in total serves them all).
C1_OneCallPerText ==
    \A c \in Callers : pc[c] = "awaiting" => Cardinality(Outstanding(req[c])) = 1

\* C2: callers that invoked translateNews concurrently with the same
\* (title, summary) and the same credential receive the same result,
\* whatever the provider answers to each request.
C2_SameResult ==
    \A c, d \in Callers :
        (/\ c \in peers[d]
         /\ pc[c] = "done" /\ pc[d] = "done"
         /\ req[c].apiKey = req[d].apiKey)
        => ret[c] = ret[d]

\* C3 as stated: of two sequential calls with the same arguments, the
\* second made less than 24 hours after the first returned, the second
\* issues no provider call and returns the result of the first.
C3_Original ==
    [][\A t \in NewsTitles, s \in NewsSummaries, k \in BOOLEAN :
          (/\ pc[1] = "done"
           /\ SameText(req[1], Text(t, s)) /\ req[1].apiKey = k
           /\ now - doneAt[1] < CACHE_TTL
           /\ NewsCall(1, t, s, k))
          => (fetches' = fetches /\ pc'[1] = "done" /\ ret'[1] = ret[1])]_vars

\* C3 amended: when the first call returned a translation obtained from the
\* provider, a second call for the same (title, summary) made less than 24
\* hours later issues no provider call and returns the identical result.
C3_IdempotentHit ==
    [][\A t \in NewsTitles, s \in NewsSummaries, k \in BOOLEAN :
          (/\ pc[1] = "done" /\ how[1] = "ok"
           /\ SameText(req[1], Text(t, s))
           /\ now - doneAt[1] < CACHE_TTL
           /\ NewsCall(1, t, s, k))
          => (fetches' = fetches /\ pc'[1] = "done" /\ ret'[1] = ret[1])]_vars

\* A second call answered from the cache after one provider call.
C3_Witness ==
    /\ pc[1] = "done" /\ how[1] = "hit"
    /\ ncalls = 2 /\ fetches = 1
    /\ ret[1] # Text(req[1].title, req[1].summary)

\* The failure kinds of a provider reply: the call throws, the status is not
\* a success, or the reply is empty.
FailedReply(r) ==
    r.threw \/ ~r.ok \/ r.content = Undefined \/ Trim(r.content) = <<>>

\* C4: when the provider call throws, returns a non-success status or an
\* empty reply, or the call finds no credential, translateNews returns
\* exactly the (title, summary) it was given and leaves the cache as it was.
C4_FallbackSafety ==
    [][\A c \in Callers :
          (\/ \E r \in NewsReplies : FailedReply(r) /\ NewsReply(c, r)
           \/ \E t \in NewsTitles, s \in NewsSummaries, k \in BOOLEAN :
                 NewsCall(c, t, s, k) /\ how'[c] = "nokey")
          => (/\ ret'[c] = Text(req'[c].title, req'[c].summary)
              /\ cache' = cache)]_vars

\* A call that ended in fallback after a failed provider call, and nothing
\* is cached for its text.
C4_Witness ==
    \E c \in Callers :
        /\ pc[c] = "done" /\ how[c] = "fail"
        /\ ret[c] = Text(req[c].title, req[c].summary)
        /\ NewsKey(req[c].title, req[c].summary) \notin DOMAIN cache

\* C5: the promise of translateNews never rejects, for any title and
\* summary.
C5_NeverRejects ==
    \A c \in Callers : pc[c] # "rejected"

\* C7: an entry is valid exactly while its age is below 24 hours: a call of
\* translateNews is answered from the cache if and only if an entry of age
\* below CACHE_TTL is stored under its key; with an entry of age CACHE_TTL
\* or more it issues a provider call (given a credential) while the expired
\* entry stays in the store; and getCachedTranslation returns an entry if
\* and only if one of age below CACHE_TTL is stored under the id.
C7_TTLExpiry ==
    /\ \A c \in Callers :
          how[c] \notin {"none", "threw"} =>
             /\ (how[c] = "hit") <=> (seen[c] >= 0 /\ seen[c] < CACHE_TTL)
             /\ (seen[c] >= CACHE_TTL /\ HasKey(req[c].apiKey))
                   => how[c] \in {"fetch", "ok", "fail"}
             /\ (seen[c] >= CACHE_TTL /\ how[c] = "fetch")
                   => NewsKey(req[c].title, req[c].summary) \in DOMAIN cache
    /\ got.id # Undefined =>
          ((got.res # NoText) <=> (got.age >= 0 /\ got.age < CACHE_TTL))

\* Entries aged exactly 24 hours: translateNews calls the provider afresh
\* and getCachedTranslation returns null.
C7_Witness ==
    /\ how[1] = "fetch" /\ seen[1] = CACHE_TTL
    /\ got.id # Undefined /\ got.age = CACHE_TTL /\ got.res = NoText

\* C6: after translateBatch, invoked directly or by translateClusters, ended
\* in a failure or no-credential fallback, the cache holds no entry with the
\* original, untranslated title for any item of the invocation.
C6_NoCacheOnFallback ==
    (bpc = "done" /\ bhow \in {"fail", "nokey"}) =>
        \A j \in 1..Len(bitems) :
            ~(/\ getCacheKey(bitems[j].id) \in DOMAIN cache
              /\ cache[getCacheKey(bitems[j].id)].translatedTitle = bitems[j].title)

\* C8: translateBatch returns a list as long as its input whose k-th
\* element has the id of the k-th input item, whatever the outcome.
C8_SameOrderAndLength ==
    (bpc = "done" /\ bhow \in {"nopending", "nokey", "ok", "fail"}) =>
        /\ Len(bret) = Len(bitems)
        /\ \A k \in 1..Len(bitems) : bret[k].id = bitems[k].id

\* Three items, a reply handled, the second item returned untranslated.
C8_Witness ==
    /\ bpc = "done" /\ bhow = "ok" /\ Len(bitems) = 3 /\ Len(bret) = 3
    /\ bret[2] = bitems[2]
    /\ bret[1].title # bitems[1].title

\* The blocks of the reply that give a record for ordinal k.
Records(k) ==
    {i \in 1..Len(breply) : breply[i].ord = k /\ breply[i].title # Undefined}

DistinctIds(items) ==
    \A i, j \in 1..Len(items) : i # j => items[i].id # items[j].id

\* C9: for items with distinct ids, the k-th pending item whose ordinal has
\* a record in the reply carries the translation of a record of ordinal k,
\* and a pending item whose ordinal has no record comes back with its own
\* original text.
C9_PerOrdinalDegradation ==
    (bpc = "done" /\ bhow = "ok" /\ DistinctIds(bitems)) =>
        \A k \in 1..Len(bpend) :
            LET j == bpend[k] IN
            IF Records(k) = {}
            THEN bret[j] = Item(bitems[j].id, bitems[j].title, bitems[j].summary)
            ELSE \E i \in Records(k) :
                    bret[j] = Item(bitems[j].id, breply[i].title, breply[i].summary)

\* Three pending items, records for ordinals 1 and 3 only: the first and
\* third carry "甲" and "丙", the second its original text.
C9_Witness ==
    /\ bpc = "done" /\ bhow = "ok" /\ Len(bpend) = 3 /\ DistinctIds(bitems)
    /\ Records(1) # {} /\ Records(2) = {} /\ Records(3) # {}
    /\ bret[bpend[1]].title = <<30002>>
    /\ bret[bpend[2]].title = bitems[bpend[2]].title
    /\ bret[bpend[3]].title = <<19993>>

\* C10: an item that was pending is returned with the record of a block of
\* the reply only if that block's ordinal is the item's position among the
\* pending items; ordinals outside 1..N are attributed to no item.
C10_NoMisattribution ==
    (bpc = "done" /\ bhow = "ok") =>
        \A k \in 1..Len(bpend), i \in 1..Len(breply) :
            (/\ breply[i].title # Undefined
             /\ bret[bpend[k]].title = breply[i].title
             /\ bret[bpend[k]].summary = breply[i].summary)
            => breply[i].ord = k

\* C11: a reply that echoes the shape of the composed prompt, a line
\* "k. Title: <t>" and then a line "Summary: <s>" for each pending item k,
\* gives the k-th pending item the title t and the summary s.
C11_ComposeParseAgreement ==
    (bpc = "done" /\ bhow = "ok" /\ becho # <<>>) =>
        \A k \in 1..Len(bpend) :
            /\ bret[bpend[k]].title = becho[k].title
            /\ bret[bpend[k]].summary = becho[k].summary

\* C12: for items with distinct ids given to translateBatch directly, an
\* ordinal that the reply gives more than one record yields no record: the
\* item at that position comes back with its original text and nothing is
\* cached under its id, while an ordinal with one record carries it.
C12_DuplicateOrdinalMissing ==
    (bpc = "done" /\ bhow = "ok" /\ bvia = "batch" /\ DistinctIds(bitems)) =>
        \A k \in 1..Len(bpend) :
            LET j == bpend[k] IN
            /\ Cardinality(Records(k)) >= 2 =>
                  /\ bret[j] = Item(bitems[j].id, bitems[j].title, bitems[j].summary)
                  /\ getCacheKey(bitems[j].id) \notin DOMAIN cache
            /\ Cardinality(Records(k)) = 1 =>
                  \E i \in Records(k) :
                     bret[j] = Item(bitems[j].id, breply[i].title, breply[i].summary)

\* C13: when loadTranslationCache runs on an empty cache after a snapshot
\* was persisted, every entry that was valid at the snapshot and is still
\* within the TTL is back as it was, so every lookup returns what it
\* returned before, and no entry that was expired at the snapshot is there.
C13_SnapshotRoundTrip ==
    [][(cache = <<>> /\ snapAt >= 0 /\ nlife' = nlife + 1 /\ Load(FALSE)) =>
          \A key \in DOMAIN snapCache :
              /\ (CacheValid(snapCache, key, snapAt) /\ CacheValid(snapCache, key, now))
                    => (key \in DOMAIN cache' /\ cache'[key] = snapCache[key])
              /\ ~CacheValid(snapCache, key, snapAt) => key \notin DOMAIN cache']_vars

\* A snapshot was loaded: the entry of "y", whose title needs escaping, is
\* back, and an entry of the snapshotted cache that had expired is not.
C13_Witness ==
    /\ life = "loaded" /\ snapAt >= 0
    /\ getCacheKey(<<121>>) \in DOMAIN cache
    /\ getCacheKey(<<121>>) \in DOMAIN snapCache
    /\ cache[getCacheKey(<<121>>)] = snapCache[getCacheKey(<<121>>)]
    /\ cache[getCacheKey(<<121>>)].translatedTitle = <<34, 28779, 92>>
    /\ \E key \in DOMAIN snapCache :
          ~CacheValid(snapCache, key, snapAt) /\ key \notin DOMAIN cache

\* C20: when setItem or getItem throws, or the stored text makes JSON.parse
\* (or, being "null", Object.entries) throw, persistTranslationCache and
\* loadTranslationCache return (the failure is only logged) and the cache
\* holds the entries it held before.
C20_PersistenceFailuresSwallowed ==
    [][(/\ nlife' = nlife + 1
        /\ \/ Persist(TRUE)
           \/ Load(TRUE)
           \/ LoadOutcome(stored, FALSE) = "load-failed" /\ Load(FALSE))
       => (cache' = cache /\ life' \in {"persist-failed", "load-failed"})]_vars

\* A load that failed on text that is no JSON, with entries in the cache.
C20_Witness ==
    /\ life = "load-failed" /\ Truthy(stored) /\ ~JsonParse(stored).ok
    /\ Cardinality(DOMAIN cache) = 2

\* The j-th item of the last translateBatch came back translated.
BatchTranslated(j) == bret[j].title # bitems[j].title

SameItemText(a, b) == a.title = b.title /\ a.summary = b.summary

\* C14: once a text has been translated successfully by translateNews or by
\* translateBatch, a request for the same text, under whatever id and by
\* either entry point, is answered from the cache without a provider call.
C14_SharedByText ==
    [][/\ \A l \in CrossLists :
            (/\ bpc = "done" /\ bhow = "ok" /\ bvia = "batch"
             /\ \A i \in 1..Len(l) : \E j \in 1..Len(bitems) :
                    SameItemText(l[i], bitems[j]) /\ BatchTranslated(j)
             /\ BatchCall(l, TRUE))
            => (bfetches' = bfetches /\ bpc' = "done")
       /\ \A t \in NewsTitles, k \in BOOLEAN :
            (/\ bpc = "done" /\ bhow = "ok" /\ bvia = "batch"
             /\ \E j \in 1..Len(bitems) :
                    SameItemText(Text(t, Undefined), bitems[j]) /\ BatchTranslated(j)
             /\ NewsCall(1, t, Undefined, k))
            => (fetches' = fetches /\ how'[1] = "hit")
       /\ \A l \in CrossLists :
            (/\ pc[1] = "done" /\ how[1] = "ok"
             /\ \A i \in 1..Len(l) : SameItemText(l[i], req[1])
             /\ BatchCall(l, TRUE))
            => (bfetches' = bfetches /\ bpc' = "done")]_vars

\* C15: a translation that translateBatch has written under an item's id is
\* also in the cache under the key of the item's source text, with the same
\* title and summary.
C15_IdWriteFillsTextEntry ==
    (bpc = "done" /\ bhow = "ok" /\ bvia = "batch") =>
        \A j \in 1..Len(bitems) :
            (/\ getCacheKey(bitems[j].id) \in DOMAIN cache
             /\ ~NewsKeyThrows(bitems[j].title, bitems[j].summary))
            => /\ NewsKey(bitems[j].title, bitems[j].summary) \in DOMAIN cache
               /\ cache[NewsKey(bitems[j].title, bitems[j].summary)].translatedTitle
                     = cache[getCacheKey(bitems[j].id)].translatedTitle
               /\ cache[NewsKey(bitems[j].title, bitems[j].summary)].translatedSummary
                     = cache[getCacheKey(bitems[j].id)].translatedSummary

\* C16: every call of translateNews and of translateBatch that waits for
\* the provider eventually returns, also when the provider never answers.
C16_EventuallyReturns ==
    /\ \A c \in Callers : (pc[c] = "awaiting") ~> (pc[c] # "awaiting")
    /\ (bpc = "awaiting") ~> (bpc # "awaiting")

\* C17: the items numbered in a dispatched request of translateBatch have
\* pairwise different source texts and pairwise different ids.
C17_OncePerBatch ==
    (bpc = "awaiting") =>
        \A k1, k2 \in 1..Len(bpend) :
            k1 # k2 =>
                /\ ~SameItemText(bitems[bpend[k1]], bitems[bpend[k2]])
                /\ bitems[bpend[k1]].id # bitems[bpend[k2]].id

\* Some item of the list is not Chinese and has no valid entry under its id.
SomePending(l) ==
    \E j \in 1..Len(l) :
        ~isChinese(l[j].title) /\ ~CacheValid(cache, getCacheKey(l[j].id), now)

\* C18: an invocation issues at most one provider call and never repeats it:
\* translateNews issues at most one when called and none when the reply is
\* handled, whether it failed or not; translateBatch issues exactly one when
\* called with a pending item and a credential, none otherwise, and none
\* when the reply is handled.
C18_AtMostOneCall ==
    [][/\ \A l \in CrossLists, k \in BOOLEAN :
            BatchCall(l, k) =>
                bfetches' = bfetches + (IF SomePending(l) /\ HasKey(k) THEN 1 ELSE 0)
       /\ (bpc = "awaiting" /\ bpc' # "awaiting") => bfetches' = bfetches
       /\ ncalls' = ncalls + 1 =>
            fetches' = fetches + (IF \E c \in Callers :
                                        pc[c] # "awaiting" /\ pc'[c] = "awaiting"
                                  THEN 1 ELSE 0)
       /\ (\E c \in Callers : pc[c] = "awaiting" /\ pc'[c] # "awaiting")
            => fetches' = fetches]_vars

\* translateNews has ended in fallback after its one provider call failed;
\* a first translateBatch issued one call, and a second found nothing pending
\* and issued none.
C18_Witness ==
    /\ pc[1] = "done" /\ how[1] = "fail" /\ ncalls = 1 /\ fetches = 1
    /\ bpc = "done" /\ bhow = "nopending" /\ bcalls = 2 /\ bfetches = 1

\* C19: a getCachedTranslation(id) made less than 24 hours after the last
\* cacheTranslation(id, t, s), with no other write to the id in between,
\* returns exactly (t, s).
C19_GetAfterPut ==
    [][(GetCached(<<120>>) /\ put.id = <<120>> /\ now - put.at < CACHE_TTL)
          => got'.res = Text(put.title, put.summary)]_vars

\* The id was written with "火" and "好" after the clock had run, and looked
\* up in the last millisecond of the entry's validity.
C19_Witness ==
    /\ got.id = <<120>> /\ got.age = CACHE_TTL - 1
    /\ put.id = <<120>> /\ put.at > 0
    /\ got.res = Text(<<28779>>, <<22909>>)
    /\ got.res = Text(put.title, put.summary)

\* C21: when translateNews was called with a title and no summary and the
\* provider answers with success and a reply r that is not empty once
\* trimmed, the call returns {title: r trimmed, summary: undefined} and an
\* entry with that value is stored under the key of (title, undefined).
C21_SingleItemSuccess ==
    [][\A r \in NewsReplies :
          (/\ pc[1] = "awaiting" /\ req[1].summary = Undefined
           /\ ~r.threw /\ r.ok /\ r.content # Undefined /\ Trim(r.content) # <<>>
           /\ NewsReply(1, r))
          => /\ ret'[1] = Text(Trim(r.content), Undefined)
             /\ NewsKey(req[1].title, Undefined) \in DOMAIN cache'
             /\ cache'[NewsKey(req[1].title, Undefined)]
                   = Entry(Trim(r.content), Undefined, now)]_vars

\* "Fire" without a summary was answered " 火 ": the call returned "火" and the
\* entry is in the cache.
C21_Witness ==
    /\ pc[1] = "done" /\ how[1] = "ok" /\ req[1].summary = Undefined
    /\ ret[1] = Text(<<28779>>, Undefined)
    /\ NewsKey(req[1].title, Undefined) \in DOMAIN cache
    /\ cache[NewsKey(req[1].title, Undefined)].translatedTitle = <<28779>>

\* C22: no item whose title contains a Chinese character is among the items
\* numbered in a request of translateBatch, directly or under
\* translateClusters, and translateBatch returns every such item with its
\* original title and summary.
C22_ChineseSkipped ==
    /\ \A k \in 1..Len(bpend) : ~isChinese(bitems[bpend[k]].title)
    /\ (bpc = "done" /\ bhow \in {"nopending", "nokey", "ok", "fail"}) =>
          \A j \in 1..Len(bitems) :
              isChinese(bitems[j].title) =>
                  bret[j] = Item(bitems[j].id, bitems[j].title, bitems[j].summary)

\* C23: an item given to translateBatch that has a valid entry under its id
\* is returned with the title and summary of that entry, whichever way the
\* call ends: nothing pending, no credential, a failed provider call, or a
\* reply handled (for an item whose id no pending item shares).
C23_CachedReturned ==
    (bpc = "done" /\ bvia = "batch" /\ bhow \in {"nopending", "nokey", "ok", "fail"}) =>
        \A j \in 1..Len(bitems) :
            (/\ \A k \in 1..Len(bpend) : bitems[bpend[k]].id # bitems[j].id
             /\ CacheValid(cache, getCacheKey(bitems[j].id), now))
            => bret[j] = Item(bitems[j].id,
                              cache[getCacheKey(bitems[j].id)].translatedTitle,
                              cache[getCacheKey(bitems[j].id)].translatedSummary)

\* C24: a summary is never lost.  When translateNews was given a summary,
\* the value it returns has one, and so has the entry it left in the cache
\* for that text; when an item given to translateBatch has a summary, the
\* item returned in its place has one, and so has the entry the call wrote
\* for it, also when the reply carries a title alone.
C24_SummaryKept ==
    /\ (pc[1] = "done" /\ Truthy(req[1].summary)) =>
          /\ ret[1].summary # Undefined
          /\ NewsKey(req[1].title, req[1].summary) \in DOMAIN cache =>
                cache[NewsKey(req[1].title, req[1].summary)].translatedSummary # Undefined
    /\ (bpc = "done" /\ bvia = "batch") =>
          \A j \in 1..Len(bitems) : Truthy(bitems[j].summary) =>
              /\ bret[j].summary # Undefined
              /\ (bhow = "ok" /\ bret[j].title # bitems[j].title) =>
                    cache[getCacheKey(bitems[j].id)].translatedSummary # Undefined

\* C25: for items with distinct ids given to translateBatch directly, every
\* item that comes back translated by the reply comes back with the title
\* and the summary that the cache holds under its id when the call
\* completes, whatever the reply, a reply that repeats an ordinal included.
C25_ReturnedIsCached ==
    (bpc = "done" /\ bhow = "ok" /\ bvia = "batch" /\ DistinctIds(bitems)) =>
        \A k \in 1..Len(bpend) :
            LET j == bpend[k]
                key == getCacheKey(bitems[j].id) IN
            (\E i \in Records(k) : bret[j].title = breply[i].title) =>
                /\ key \in DOMAIN cache
                /\ cache[key].translatedTitle = bret[j].title
                /\ cache[key].translatedSummary = bret[j].summary

\* C26: entries written by id and entries written by text never alias.  A
\* cache hit of translateNews never returns what cacheTranslation stored
\* under an id whose key is the key of the text, and getCachedTranslation
\* never returns for an id what translateNews translated and stored under
\* the key of a text.
C26_NoAlias ==
    /\ (pc[1] = "done" /\ how[1] = "hit" /\ put.id # Undefined) =>
          ~(/\ getCacheKey(put.id) = NewsKey(req[1].title, req[1].summary)
            /\ ret[1] = Text(put.title, put.summary))
    /\ (got.id # Undefined /\ got.res # NoText) =>
          ~(/\ pc[1] = "done" /\ how[1] = "ok"
            /\ getCacheKey(got.id) = NewsKey(req[1].title, req[1].summary)
            /\ got.res = ret[1])

\* The translations getDisplayTitle may show for a cluster: the title stored
\* for its id by the store, the title cached for its id and still valid.
Shown(cl) ==
    {translations[id] : id \in {cl.id} \cap DOMAIN translations}
    \cup (IF CacheValid(cache, getCacheKey(cl.id), now)
          THEN {cache[getCacheKey(cl.id)].translatedTitle} ELSE {})

\* C27: a call of translateClusters made while translation is disabled
\* issues no provider call, invokes no listener and leaves the cache, the
\* stored translations, the mode and the listeners as they were;
\* getDisplayTitle returns the original title while translation is
\* disabled and, while it is enabled and the original is not shown, a
\* stored or cached translation if there is one and the original title
\* otherwise; a call of setEnabled, toggle, toggleShowOriginal or
\* setShowOriginal invokes every subscribed listener once, also when saving
\* the mode fails; and a listener whose unsubscribe function has run is
\* invoked by no call.
C27_StoreGating ==
    [][/\ (~isEnabled /\ bcalls' = bcalls + 1 /\ bvia' = "clusters") =>
             /\ bfetches' = bfetches
             /\ notified' = NoneNotified
             /\ UNCHANGED <<cache, translations, isEnabled, showOriginal, mode,
                            listeners>>
       /\ \A cl \in {ItemA, ItemB} : (disp' # disp /\ GetDisplayTitle(cl)) =>
             /\ ~isEnabled => disp'.res = cl.title
             /\ (isEnabled /\ ~showOriginal) =>
                   IF Shown(cl) # {} THEN disp'.res \in Shown(cl)
                   ELSE disp'.res = cl.title
       /\ StoreSetter => \A l \in listeners : notified'[l] = 1
       /\ \A l \in handed' \ listeners' : notified'[l] = 0]_vars

\* Translation was enabled by a setter that invoked the one subscribed
\* listener once and did not invoke the listener that had unsubscribed;
\* before that a call of translateClusters was made while translation was
\* disabled; and getDisplayTitle then returned a translation.
C27_Witness ==
    /\ isEnabled /\ ~showOriginal
    /\ bhow = "disabled"
    /\ \E l \in listeners : notified[l] = 1
    /\ \E l \in handed \ listeners : notified[l] = 0
    /\ disp.res # Undefined /\ disp.res # disp.title

====
